---- MODULE Spec2Model ----
\* Model of tikz2svg.py: a panflute filter that finds TikZ / CircuitikZ /
\* picture environments inside Figure and Div.center nodes, renders a black
\* and a white image of each through lualatex + pdftocairo into the media
\* directory, and replaces the node by a MyST raw block.
\*
\* Text is modelled as a sequence of tokens (a marker such as
\* "\begin{tikzpicture}", a line of generated markdown, or a filler word);
\* "\n".join(lines) is the sequence of its lines.
EXTENDS Integers, Sequences, FiniteSets, TLC

\* ---------------------------------------------------------------------------
\* Bounds of the model
\* ---------------------------------------------------------------------------
MaxVisits == 3   \* calls of tikz_filter, over all traversals together
MaxTextLen == 4  \* tokens of a text handed to extract_tikz
MaxDocLen == 2   \* nodes of a document that is traversed twice

\* ---------------------------------------------------------------------------
\* Configuration / constants (tikz2svg.py 42-58)
\* ---------------------------------------------------------------------------
MEDIA_PATH == "media"
STYLE_BLACK == "black"
STYLE_WHITE == "white"
Themes == {STYLE_BLACK, STYLE_WHITE}

\* ---------------------------------------------------------------------------
\* Text tokens
\* ---------------------------------------------------------------------------
Envs == {"tikzpicture", "circuitikz", "picture"}
BeginMarker(env) == "\\begin{" \o env \o "}"
EndMarker(env) == "\\end{" \o env \o "}"

\* tokens in which one of the substrings "tikzpicture", "circuitikz",
\* "begin{picture}" occurs ("\end{picture}" holds none of them)
KeywordTokens ==
    {BeginMarker("tikzpicture"), EndMarker("tikzpicture"),
     BeginMarker("circuitikz"), EndMarker("circuitikz"),
     BeginMarker("picture"), "tikzpicture", "circuitikz"}

HasKeyword(text) == \E i \in 1..Len(text) : text[i] \in KeywordTokens

\* ---------------------------------------------------------------------------
\* Utility helpers
\* ---------------------------------------------------------------------------
RECURSIVE JoinTokens(_)
JoinTokens(text) ==
    IF text = <<>> THEN "" ELSE Head(text) \o JoinTokens(Tail(text))

\* hashlib.sha1(text).hexdigest(): a digest that is a function of the exact
\* content and differs for different contents
sha1_hash(text) == "sha1(" \o JoinTokens(text) \o ")"

RECURSIVE JoinNums(_)
JoinNums(nums) ==
    IF Len(nums) = 1 THEN ToString(Head(nums))
    ELSE ToString(Head(nums)) \o "_" \o JoinNums(Tail(nums))

\* a variant that renders every counter list as "0"
sanitize_number_zero(nums) == "0"

sanitize_number(nums) == IF nums = <<>> THEN "0" ELSE JoinNums(nums)

\* ---------------------------------------------------------------------------
\* extract_tikz: re.search of \begin{env}.*?\end{env} with re.S, as the
\* regex engine runs it: the start positions are tried from left to right;
\* at a start position the begin marker fixes the group env, the lazy .*?
\* is extended one token at a time until \end{env} of that group matches,
\* and a start position whose .*? reaches the end of the text fails.
\* None is modelled as the empty text (both are falsy).
\* ---------------------------------------------------------------------------
MinOf(S) == CHOOSE m \in S : \A n \in S : m <= n

EnvAt(raw, i) == CHOOSE env \in Envs : raw[i] = BeginMarker(env)

\* a variant with a greedy .* : the last end marker of the group ends the match
RECURSIVE GreedyEnd(_, _, _)
GreedyEnd(raw, j, env) ==
    IF j > Len(raw) THEN 0
    ELSE LET later == GreedyEnd(raw, j + 1, env)
         IN  IF later # 0 THEN later
             ELSE IF raw[j] = EndMarker(env) THEN j ELSE 0

\* .*?\end{env} from position j on: the position of the end marker, 0: no match
RECURSIVE LazyEnd(_, _, _)
LazyEnd(raw, j, env) ==
    IF j > Len(raw) THEN 0
    ELSE IF raw[j] = EndMarker(env) THEN j
    ELSE LazyEnd(raw, j + 1, env)

\* the pattern tried at start position i: the end of the match, 0: no match
MatchAt(raw, i) ==
    IF \E env \in Envs : raw[i] = BeginMarker(env)
    THEN LazyEnd(raw, i + 1, EnvAt(raw, i))
    ELSE 0

RECURSIVE SearchFrom(_, _)
SearchFrom(raw, i) ==
    IF i > Len(raw) THEN <<>>
    ELSE IF MatchAt(raw, i) # 0 THEN SubSeq(raw, i, MatchAt(raw, i))
    ELSE SearchFrom(raw, i + 1)

\* a variant that falls back to the whole text when nothing matches
extract_tikz_or_raw(raw) ==
    IF SearchFrom(raw, 1) = <<>> THEN raw ELSE SearchFrom(raw, 1)

extract_tikz(raw) == SearchFrom(raw, 1)

\* ---------------------------------------------------------------------------
\* Document nodes (panflute elements the filter dispatches on)
\* ---------------------------------------------------------------------------
Header(level) == [kind |-> "Header", level |-> level]
Para(text) == [kind |-> "Para", text |-> text]
RawBlock(text, format) == [kind |-> "RawBlock", text |-> text, format |-> format]
Figure(identifier, caption, content) ==
    [kind |-> "Figure", identifier |-> identifier, caption |-> caption,
     content |-> content]
Div(classes, content) == [kind |-> "Div", classes |-> classes, content |-> content]

isRawBlock(c) == c.kind = "RawBlock"

\* sample diagram sources and raw texts
TikzA == <<BeginMarker("tikzpicture"), "A", EndMarker("tikzpicture")>>
CircB == <<BeginMarker("circuitikz"), "B", EndMarker("circuitikz")>>
TextAround == <<"x">> \o TikzA \o <<"y">>
TextIncomplete == <<BeginMarker("tikzpicture"), "A">>

\* ---------------------------------------------------------------------------
\* Generated markdown
\* ---------------------------------------------------------------------------
DarkClassLine == ":class: dark:hidden"
LightClassLine == ":class: hidden dark:block"
ImageLine(rel) == "![](" \o rel \o ")"

\* str.strip() of the joined lines: leading and trailing blank lines go
RECURSIVE StripTrailing(_)
StripTrailing(lines) ==
    IF lines # <<>> /\ lines[Len(lines)] = ""
    THEN StripTrailing(SubSeq(lines, 1, Len(lines) - 1))
    ELSE lines

RECURSIVE StripLeading(_)
StripLeading(lines) ==
    IF lines # <<>> /\ Head(lines) = "" THEN StripLeading(Tail(lines)) ELSE lines

Strip(lines) == StripLeading(StripTrailing(lines))

\* the dark block and the light block of one image pair
DarkDiv(black_rel) == <<":::{div}", DarkClassLine, ImageLine(black_rel), ":::">>
LightDiv(white_rel) == <<":::{div}", LightClassLine, ImageLine(white_rel), ":::">>

\* lines 239-260: the MyST figure directive
FigureMyst(label, caption, black_rel, white_rel) ==
    <<"::::{figure}">>
    \o (IF label # "" THEN <<":label: " \o label>> ELSE <<>>)
    \o <<":alt: " \o caption, "">>
    \o DarkDiv(black_rel) \o <<"">>
    \o LightDiv(white_rel) \o <<"">>
    \o <<caption, "::::">>

\* lines 304-316: the two sibling divs of a Div.center
CenterMd(black_rel, white_rel) ==
    Strip(DarkDiv(black_rel) \o <<"">> \o LightDiv(white_rel) \o <<"">>)

\* _is_tikz_darklight_raw (the leading underscore is dropped)
HasDarkLightMarker(text) ==
    \E i \in 1..Len(text) : text[i] \in {DarkClassLine, LightClassLine}

is_tikz_darklight_raw(block) ==
    /\ isRawBlock(block)
    /\ block.format \in {"html", "markdown", "gfm"}
    /\ HasDarkLightMarker(block.text)

\* ---------------------------------------------------------------------------
\* File names
\* ---------------------------------------------------------------------------
BaseName(hl1, hl2, img_num, h) ==
    hl1 \o "_" \o hl2 \o "_" \o ToString(img_num) \o "_" \o h

\* os.path.join(MEDIA_PATH, f"{base}_<theme>.svg"), with forward slashes
ThemePath(base, theme) == MEDIA_PATH \o "/" \o base \o "_" \o theme \o ".svg"

\* ---------------------------------------------------------------------------
\* compile_tikz_to_svg: one render attempt of one theme.
\* The outcome of the external tools is an input:
\*   ok               lualatex and pdftocairo exit 0, os.replace moves the svg
\*   lualatex_fail    lualatex exits non-zero (CalledProcessError)
\*   pdftocairo_fail  pdftocairo exits non-zero (CalledProcessError)
\*   early_error      another exception before lualatex runs (temp dir, t.tex)
\*   replace_error    another exception in os.replace, after both tools ran
\* fs is the set of paths present in the media directory.
\* ---------------------------------------------------------------------------
Outcomes == {"ok", "lualatex_fail", "pdftocairo_fail", "early_error", "replace_error"}

ToolRuns(outcome) ==
    CASE outcome = "early_error" -> 0
      [] outcome = "lualatex_fail" -> 1
      [] OTHER -> 2

\* a variant that moves whatever the tools left to the target path
compile_keeps_partial(fs, out_svg, outcome) ==
    [fs |-> IF outcome \in {"ok", "pdftocairo_fail"} THEN fs \cup {out_svg} ELSE fs,
     ok |-> outcome = "ok",
     called |-> 1,
     runs |-> ToolRuns(outcome),
     replaced |-> IF outcome \in {"ok", "pdftocairo_fail"} THEN {out_svg} ELSE {},
     diags |-> IF outcome = "ok" THEN 0 ELSE 1]

compile_tikz_to_svg(fs, out_svg, outcome) ==
    [fs |-> IF outcome = "ok" THEN fs \cup {out_svg} ELSE fs,
     ok |-> outcome = "ok",
     called |-> 1,
     runs |-> ToolRuns(outcome),
     replaced |-> IF outcome = "ok" THEN {out_svg} ELSE {},
     diags |-> IF outcome = "ok" THEN 0 ELSE 1]

\* the branch not taken: the file is there and nothing is done
NoCompile(fs) ==
    [fs |-> fs, ok |-> TRUE, called |-> 0, runs |-> 0, replaced |-> {}, diags |-> 0]

\* a variant without the existence check
NeedsCompileAlways(fs, path) == TRUE

\* "if not os.path.exists(path)"
NeedsCompile(fs, path) == path \notin fs

EnsureOne(fs, path, outcome) ==
    IF NeedsCompile(fs, path) THEN compile_tikz_to_svg(fs, path, outcome)
    ELSE NoCompile(fs)

\* ---------------------------------------------------------------------------
\* The nodes a document is made of in this model
\* ---------------------------------------------------------------------------
ProcessedMd ==
    CenterMd(ThemePath(BaseName("1", "1", 1, sha1_hash(TikzA)), STYLE_BLACK),
             ThemePath(BaseName("1", "1", 1, sha1_hash(TikzA)), STYLE_WHITE))

HeaderNodes == {Header(l) : l \in 1..3}

FigureNodes ==
    {Figure("fig:circuit1", "A simple circuit", <<RawBlock(CircB, "latex")>>),
     Figure("", "cut", <<RawBlock(TextIncomplete, "latex")>>)}

CenterNodes ==
    {Div({"center"}, <<Para(<<"intro">>), RawBlock(TextAround, "latex")>>),
     Div({"center"}, <<RawBlock(ProcessedMd, "markdown")>>)}

OtherNodes == {RawBlock(TikzA, "latex"), Para(<<"intro">>)}

\* ---------------------------------------------------------------------------
\* State
\* ---------------------------------------------------------------------------
VARIABLES
    level1_number,         \* doc.level1_number: <<>> or <<chapter>>
    level2_number,         \* doc.level2_number: <<>> or <<section>>
    image_num_per_level2,  \* doc.image_num_per_level2: section key -> count
    media,                 \* paths present in the media directory
    run,                   \* traversals started so far
    pos,                   \* nodes visited in the current traversal
    visits,                \* nodes visited in all traversals
    last,                  \* what the last call of tikz_filter did
    sinceHeading,          \* images emitted since the last level 1/2 heading
    emissions,             \* <<code, base, <<chapter, section, sequence>>>> of
                           \* each emission of this traversal
    rendered,              \* <<base, black, white>> of every render step so far
    rawText,               \* the text extract_tikz is called with
    found,                 \* what extract_tikz returned for rawText
    doc,                   \* the nodes of the document, in traversal order
    format,                \* doc.format: the output format pandoc writes
    firstRun,              \* the emissions of the first traversal of doc
    procs                  \* the filter processes that run at the same time

vars == <<level1_number, level2_number, image_num_per_level2, media, run, pos,
          visits, last, sinceHeading, emissions, rendered,
          rawText, found, doc, format, firstRun, procs>>

NoTheme == [t \in Themes |-> 0]

\* the record of a call that did not reach the render step
Passed(elem, result) ==
    [elem |-> elem, result |-> result, emitted |-> FALSE, code |-> <<>>,
     base |-> "", img_num |-> 0, seenBefore |-> FALSE, existed |-> {},
     outcome |-> [t \in Themes |-> "none"], called |-> NoTheme,
     runs |-> NoTheme, replaced |-> {}, diags |-> 0]

NoCall == Passed([kind |-> "None"], <<>>)

\* prepare(doc), and the state run_filter starts the first traversal in.
\* prepare always runs before the first node, so the hasattr fallbacks of
\* tikz_filter (160-163, 207-210, 278-281) never fire and set the same values.
InitFilter ==
    /\ level1_number = <<>>
    /\ level2_number = <<>>
    /\ image_num_per_level2 = <<>>
    /\ media = {}
    /\ run = 1
    /\ pos = 0
    /\ visits = 0
    /\ last = NoCall
    /\ sinceHeading = 0
    /\ emissions = <<>>
    /\ rendered = {}

\* extract_tikz not called on its own
NotRun == [done |-> FALSE, span |-> <<>>]

InitNoExtract == rawText = <<>> /\ found = NotRun

\* nodes of any document, written as markdown
InitAnyDoc == doc = <<>> /\ format = "markdown" /\ firstRun = <<>>

\* one process only
InitAlone == procs = <<>>

Init == InitFilter /\ InitNoExtract /\ InitAnyDoc /\ InitAlone

\* a later run of the filter: prepare(doc) again, the media directory stays
\* a variant that forgets to reset the image counters
ResetCountersKeepsImages ==
    /\ level1_number' = <<>>
    /\ level2_number' = <<>>
    /\ UNCHANGED image_num_per_level2

\* the three assignments of prepare(doc)
ResetCounters ==
    /\ level1_number' = <<>>
    /\ level2_number' = <<>>
    /\ image_num_per_level2' = <<>>

prepare ==
    /\ visits < MaxVisits
    /\ pos > 0
    /\ run' = run + 1
    /\ pos' = 0
    /\ ResetCounters
    /\ last' = NoCall
    /\ sinceHeading' = 0
    /\ emissions' = <<>>
    /\ UNCHANGED <<media, rendered, visits>>
    /\ UNCHANGED <<rawText, found, doc, format, firstRun, procs>>

\* ---------------------------------------------------------------------------
\* tikz_filter, branch 1: Header
\* ---------------------------------------------------------------------------
\* doc.levelN_number[-1] += 1, or [1] when the list is empty
Bump(nums) ==
    IF nums = <<>> THEN <<1>>
    ELSE [nums EXCEPT ![Len(nums)] = nums[Len(nums)] + 1]

\* dict assignment d[key] = value
DictSet(d, key, value) ==
    [k \in (DOMAIN d) \cup {key} |-> IF k = key THEN value ELSE d[k]]

\* a variant that keeps the counters of the previous chapter
ClearedMapKept(d) == d

\* the map after a level-1 heading
ClearedMap(d) == <<>>

\* a variant that counts every heading below level 1 as a section
HeaderStepDeep(elem) ==
    /\ IF elem.level = 1
       THEN /\ level1_number' = Bump(level1_number)
            /\ level2_number' = <<>>
            /\ image_num_per_level2' = ClearedMap(image_num_per_level2)
       ELSE /\ level2_number' = Bump(level2_number)
            /\ image_num_per_level2' =
                   DictSet(image_num_per_level2, Bump(level2_number), 0)
            /\ UNCHANGED level1_number
    /\ sinceHeading' = IF elem.level \in {1, 2} THEN 0 ELSE sinceHeading
    /\ last' = Passed(elem, <<elem>>)
    /\ UNCHANGED <<media, emissions, rendered>>

HeaderStep(elem) ==
    /\ IF elem.level = 1
       THEN /\ level1_number' = Bump(level1_number)
            /\ level2_number' = <<>>
            /\ image_num_per_level2' = ClearedMap(image_num_per_level2)
       ELSE IF elem.level = 2
       THEN /\ level2_number' = Bump(level2_number)
            /\ image_num_per_level2' =
                   DictSet(image_num_per_level2, Bump(level2_number), 0)
            /\ UNCHANGED level1_number
       ELSE UNCHANGED <<level1_number, level2_number, image_num_per_level2>>
    /\ sinceHeading' = IF elem.level \in {1, 2} THEN 0 ELSE sinceHeading
    /\ last' = Passed(elem, <<elem>>)
    /\ UNCHANGED <<media, emissions, rendered>>

\* one more node of the document is handed to tikz_filter
Visit ==
    /\ visits < MaxVisits
    /\ visits' = visits + 1
    /\ pos' = pos + 1
    /\ UNCHANGED run
    /\ UNCHANGED <<rawText, found, doc, format, firstRun, procs>>

VisitHeader ==
    /\ Visit
    /\ \E elem \in HeaderNodes : HeaderStep(elem)

\* ---------------------------------------------------------------------------
\* tikz_filter, the steps the Figure and the Div.center branch share:
\* numbering (212-217, 283-288), file names (220-223, 291-294) and the render
\* step (226-229, 296-299). ob and ow are the outcomes the external tools
\* would have for the black and for the white render.
\* ---------------------------------------------------------------------------
\* a variant that numbers every image of a section 1
CountUpStuck(d, key) == DictSet(d, key, 1)

\* dict.setdefault(key, 0) followed by d[key] += 1
CountUp(d, key) ==
    DictSet(d, key, (IF key \in DOMAIN d THEN d[key] ELSE 0) + 1)

\* a variant that gives up on the white image when the black render failed
EmissionStopsOnFailure(tikz_code, ob, ow) ==
    LET hl1 == sanitize_number(level1_number)
        hl2 == sanitize_number(level2_number)
        key == level2_number
        counts == CountUp(image_num_per_level2, key)
        img_num == counts[key]
        base == BaseName(hl1, hl2, img_num, sha1_hash(tikz_code))
        black == ThemePath(base, STYLE_BLACK)
        white == ThemePath(base, STYLE_WHITE)
        rb == EnsureOne(media, black, ob)
        rw == IF rb.ok THEN EnsureOne(rb.fs, white, ow) ELSE NoCompile(rb.fs)
    IN  [counts |-> counts, img_num |-> img_num, base |-> base,
         black |-> black, white |-> white, fs |-> rw.fs,
         existed |-> {t \in Themes : ThemePath(base, t) \in media},
         outcome |-> (STYLE_BLACK :> (IF rb.called = 1 THEN ob ELSE "none")
                      @@ STYLE_WHITE :> (IF rw.called = 1 THEN ow ELSE "none")),
         called |-> (STYLE_BLACK :> rb.called @@ STYLE_WHITE :> rw.called),
         runs |-> (STYLE_BLACK :> rb.runs @@ STYLE_WHITE :> rw.runs),
         replaced |-> rb.replaced \cup rw.replaced,
         diags |-> rb.diags + rw.diags]

Emission(tikz_code, ob, ow) ==
    LET hl1 == sanitize_number(level1_number)
        hl2 == sanitize_number(level2_number)
        key == level2_number
        counts == CountUp(image_num_per_level2, key)
        img_num == counts[key]
        base == BaseName(hl1, hl2, img_num, sha1_hash(tikz_code))
        black == ThemePath(base, STYLE_BLACK)
        white == ThemePath(base, STYLE_WHITE)
        rb == EnsureOne(media, black, ob)
        rw == EnsureOne(rb.fs, white, ow)
    IN  [counts |-> counts, img_num |-> img_num, base |-> base,
         black |-> black, white |-> white, fs |-> rw.fs,
         existed |-> {t \in Themes : ThemePath(base, t) \in media},
         outcome |-> (STYLE_BLACK :> (IF rb.called = 1 THEN ob ELSE "none")
                      @@ STYLE_WHITE :> (IF rw.called = 1 THEN ow ELSE "none")),
         called |-> (STYLE_BLACK :> rb.called @@ STYLE_WHITE :> rw.called),
         runs |-> (STYLE_BLACK :> rb.runs @@ STYLE_WHITE :> rw.runs),
         replaced |-> rb.replaced \cup rw.replaced,
         diags |-> rb.diags + rw.diags]

\* the outcomes the external tools can have for one theme of the next image:
\* they are an input only where the render of that theme is reached
NextBase(tikz_code) ==
    LET counts == CountUp(image_num_per_level2, level2_number)
    IN  BaseName(sanitize_number(level1_number), sanitize_number(level2_number),
                 counts[level2_number], sha1_hash(tikz_code))

ToolOutcomes(tikz_code, theme) ==
    IF NeedsCompile(media, ThemePath(NextBase(tikz_code), theme))
    THEN Outcomes ELSE {"none"}

\* the state after an emission whose replacement is result
Emitted(elem, tikz_code, e, result) ==
    /\ image_num_per_level2' = e.counts
    /\ media' = e.fs
    /\ sinceHeading' = sinceHeading + 1
    /\ emissions' = Append(emissions,
           <<tikz_code, e.base, <<level1_number, level2_number, e.img_num>>>>)
    /\ rendered' = rendered \cup {<<e.base, e.black, e.white>>}
    /\ last' = [elem |-> elem, result |-> result, emitted |-> TRUE,
                code |-> tikz_code, base |-> e.base, img_num |-> e.img_num,
                seenBefore |-> \E r \in rendered : r[1] = e.base,
                existed |-> e.existed,
                outcome |-> e.outcome, called |-> e.called, runs |-> e.runs,
                replaced |-> e.replaced, diags |-> e.diags]
    /\ UNCHANGED <<level1_number, level2_number>>

\* "return elem" before anything was touched
ReturnElem(elem) ==
    /\ last' = Passed(elem, <<elem>>)
    /\ UNCHANGED <<level1_number, level2_number, image_num_per_level2, media,
                   sinceHeading, emissions, rendered>>

\* the first RawBlock child whose text holds one of the keywords (0: none)
FirstTikzChild(content) ==
    LET S == {i \in 1..Len(content) :
                 isRawBlock(content[i]) /\ HasKeyword(content[i].text)}
    IN  IF S = {} THEN 0 ELSE MinOf(S)

\* ---------------------------------------------------------------------------
\* tikz_filter, branch 2: Figure
\* ---------------------------------------------------------------------------
FigureResult(elem, e) ==
    <<RawBlock(FigureMyst(elem.identifier, elem.caption, e.black, e.white),
               "markdown")>>

FigureStep(elem) ==
    LET i == FirstTikzChild(elem.content)
        tikz_raw == IF i = 0 THEN <<>> ELSE elem.content[i].text
        tikz_code == extract_tikz(tikz_raw)
    IN  IF tikz_raw = <<>> \/ tikz_code = <<>>
        THEN ReturnElem(elem)
        ELSE \E ob \in ToolOutcomes(tikz_code, STYLE_BLACK) :
             \E ow \in ToolOutcomes(tikz_code, STYLE_WHITE) :
                 LET e == Emission(tikz_code, ob, ow)
                 IN  Emitted(elem, tikz_code, e, FigureResult(elem, e))

VisitFigure ==
    /\ Visit
    /\ \E elem \in FigureNodes : FigureStep(elem)

\* ---------------------------------------------------------------------------
\* tikz_filter, branch 3: Div with class "center"
\* ---------------------------------------------------------------------------
CenterResult(elem, e) == <<RawBlock(CenterMd(e.black, e.white), "markdown")>>

CenterStep(elem) ==
    LET i == FirstTikzChild(elem.content)
        tikz_code == IF i = 0 THEN <<>> ELSE extract_tikz(elem.content[i].text)
    IN  IF tikz_code = <<>>
        THEN ReturnElem(elem)
        ELSE \E ob \in ToolOutcomes(tikz_code, STYLE_BLACK) :
             \E ow \in ToolOutcomes(tikz_code, STYLE_WHITE) :
                 LET e == Emission(tikz_code, ob, ow)
                 IN  Emitted(elem, tikz_code, e, CenterResult(elem, e))

VisitCenter ==
    /\ Visit
    /\ \E elem \in CenterNodes : CenterStep(elem)

\* ---------------------------------------------------------------------------
\* tikz_filter, default branch: every other element
\* ---------------------------------------------------------------------------
VisitOther ==
    /\ Visit
    /\ \E elem \in OtherNodes : ReturnElem(elem)

Next == prepare \/ VisitHeader \/ VisitFigure \/ VisitCenter \/ VisitOther

Spec == Init /\ [][Next]_vars

\* ---------------------------------------------------------------------------
\* extract_tikz on its own, for every text of up to MaxTextLen tokens
\* ---------------------------------------------------------------------------
TextTokens ==
    {BeginMarker(env) : env \in Envs} \cup {EndMarker(env) : env \in Envs} \cup {"A"}

Texts == UNION {[1..n -> TextTokens] : n \in 0..MaxTextLen}

InitExtract ==
    /\ InitFilter /\ InitAnyDoc /\ InitAlone
    /\ rawText \in Texts
    /\ found = NotRun

ExtractCall ==
    /\ ~found.done
    /\ found' = [done |-> TRUE, span |-> extract_tikz(rawText)]
    /\ UNCHANGED <<level1_number, level2_number, image_num_per_level2, media,
                   run, pos, visits, last, sinceHeading, emissions, rendered,
                   rawText, doc, format, firstRun, procs>>

NextExtract == ExtractCall

SpecExtract == InitExtract /\ [][NextExtract]_vars

\* ---------------------------------------------------------------------------
\* Two runs of the filter, one after the other, over the same document and
\* the same media directory. run_filter walks the nodes in document order
\* and hands each one to tikz_filter.
\* ---------------------------------------------------------------------------
DocNodes ==
    {Header(1), Header(2),
     Figure("fig:circuit1", "A simple circuit", <<RawBlock(CircB, "latex")>>),
     Div({"center"}, <<Para(<<"intro">>), RawBlock(TextAround, "latex")>>),
     RawBlock(TikzA, "latex")}

Docs == UNION {[1..n -> DocNodes] : n \in 1..MaxDocLen}

\* the formats pandoc passes as doc.format in this model
OutputFormats == {"markdown", "latex"}

InitDoc ==
    /\ InitFilter /\ InitNoExtract /\ InitAlone
    /\ doc \in Docs
    /\ format \in OutputFormats
    /\ firstRun = <<>>

\* the isinstance chain of tikz_filter
tikz_filter(elem) ==
    IF elem.kind = "Header" THEN HeaderStep(elem)
    ELSE IF elem.kind = "Figure" THEN FigureStep(elem)
    ELSE IF elem.kind = "Div" /\ "center" \in elem.classes THEN CenterStep(elem)
    ELSE ReturnElem(elem)

DocVisit ==
    /\ pos < Len(doc)
    /\ pos' = pos + 1
    /\ visits' = visits + 1
    /\ tikz_filter(doc[pos + 1])
    /\ UNCHANGED <<run, rawText, found, doc, format, firstRun, procs>>

\* the first run is over; the filter is started again on the same document
DocPrepare ==
    /\ run = 1
    /\ pos = Len(doc)
    /\ run' = 2
    /\ pos' = 0
    /\ ResetCounters
    /\ last' = NoCall
    /\ sinceHeading' = 0
    /\ firstRun' = emissions
    /\ emissions' = <<>>
    /\ UNCHANGED <<media, rendered, visits, rawText, found, doc, format, procs>>

NextDoc == DocVisit \/ DocPrepare

SpecDoc == InitDoc /\ [][NextDoc]_vars

\* ---------------------------------------------------------------------------
\* Two runs of the filter at the same time, over the same document and the
\* same media directory. Both reach the first diagram node with the counters
\* of prepare, so both compute the same base name. A process steps through
\* the render of a theme: os.path.exists (226, 228), lualatex (106),
\* pdftocairo (112) and os.replace (117); its temporary directory is its own.
\* ---------------------------------------------------------------------------
Procs == {1, 2}

ConcPath(theme) == ThemePath(NextBase(CircB), theme)

InitConc ==
    /\ InitFilter /\ InitNoExtract /\ InitAnyDoc
    /\ procs = [p \in Procs |->
                   [pc |-> "exists", theme |-> STYLE_BLACK, saw |-> {},
                    runs |-> NoTheme, wrote |-> {}]]

\* the render of the current theme is over, with or without a file
AfterTheme(r) ==
    IF r.theme = STYLE_BLACK
    THEN [r EXCEPT !.theme = STYLE_WHITE, !.pc = "exists"]
    ELSE [r EXCEPT !.pc = "return"]

ToolRan(r) == [r EXCEPT !.runs[r.theme] = @ + 1]

ConcFrame ==
    UNCHANGED <<level1_number, level2_number, image_num_per_level2, run, pos,
                visits, last, sinceHeading, emissions, rendered,
                rawText, found, doc, format, firstRun>>

\* "if not os.path.exists(path)"; saw records what the process observed
ProcExists(p) ==
    /\ procs[p].pc = "exists"
    /\ LET r == procs[p]
           path == ConcPath(r.theme)
           seen == IF path \notin media THEN r.saw \cup {r.theme} ELSE r.saw
       IN  procs' = [procs EXCEPT ![p] =
                        IF NeedsCompile(media, path)
                        THEN [r EXCEPT !.pc = "lualatex", !.saw = seen]
                        ELSE AfterTheme(r)]
    /\ UNCHANGED media
    /\ ConcFrame

ProcLualatex(p) ==
    /\ procs[p].pc = "lualatex"
    /\ \E ok \in BOOLEAN :
           procs' = [procs EXCEPT ![p] =
                        IF ok THEN [ToolRan(@) EXCEPT !.pc = "pdftocairo"]
                        ELSE AfterTheme(ToolRan(@))]
    /\ UNCHANGED media
    /\ ConcFrame

ProcPdftocairo(p) ==
    /\ procs[p].pc = "pdftocairo"
    /\ \E ok \in BOOLEAN :
           procs' = [procs EXCEPT ![p] =
                        IF ok THEN [ToolRan(@) EXCEPT !.pc = "replace"]
                        ELSE AfterTheme(ToolRan(@))]
    /\ UNCHANGED media
    /\ ConcFrame

\* os.replace(svg_path, out_svg): creates or overwrites the target
ProcReplace(p) ==
    /\ procs[p].pc = "replace"
    /\ \E ok \in BOOLEAN :
           LET r == procs[p]
           IN  IF ok
               THEN /\ media' = media \cup {ConcPath(r.theme)}
                    /\ procs' = [procs EXCEPT ![p] =
                                     AfterTheme([r EXCEPT !.wrote = @ \cup {r.theme}])]
               ELSE /\ UNCHANGED media
                    /\ procs' = [procs EXCEPT ![p] = AfterTheme(r)]
    /\ ConcFrame

NextConc ==
    \E p \in Procs :
        ProcExists(p) \/ ProcLualatex(p) \/ ProcPdftocairo(p) \/ ProcReplace(p)

SpecConc == InitConc /\ [][NextConc]_vars

\* ===========================================================================
\* Properties
\* ===========================================================================
PathOf(t) == ThemePath(last.base, t)

\* C1: when the render of at least one theme fails, so that its image file is
\* missing after the attempt, tikz_filter returns the original Figure or
\* Div.center node unchanged and emits no replacement block.
C1_RenderFailureKeepsNode ==
    (/\ last.emitted
     /\ last.elem.kind \in {"Figure", "Div"}
     /\ \E t \in Themes : PathOf(t) \notin media)
    => last.result = <<last.elem>>

\* C2: the sequence number of an emission is the number of emissions since the
\* last level-1 or level-2 heading of the traversal (1, 2, 3, ... inside one
\* section, 1 for the first after a level-2 heading), and right after a
\* level-1 heading the image-count map and the section counter are empty.
C2_Numbering ==
    /\ last.emitted => last.img_num = sinceHeading
    /\ (last.elem.kind = "Header" /\ last.elem.level = 1)
           => image_num_per_level2 = <<>> /\ level2_number = <<>>

C2_Witness ==
    /\ last.emitted
    /\ last.img_num = 2
    /\ level1_number = <<>>
    /\ level2_number = <<1>>

\* C3 as stated: a second render step for the same source and base name makes
\* no external invocation for either theme.
C3_SecondCallNoInvocation ==
    (last.emitted /\ last.seenBefore) => \A t \in Themes : last.runs[t] = 0

\* C3 as amended: a second render step for the same source and base name
\* yields the same two paths, makes no external invocation for a theme whose
\* file the first call left in the media directory, and attempts the render
\* again for a theme whose file is still missing.
C3_CacheHit ==
    /\ \A r1 \in rendered : \A r2 \in rendered : r1[1] = r2[1] => r1 = r2
    /\ (last.emitted /\ last.seenBefore) =>
           \A t \in Themes :
               IF t \in last.existed
               THEN last.called[t] = 0 /\ last.runs[t] = 0
               ELSE last.called[t] = 1

C3_Witness ==
    /\ last.emitted
    /\ last.seenBefore
    /\ last.existed = Themes
    /\ \A t \in Themes : last.runs[t] = 0

\* C4: a target path comes into existence only in a render attempt in which
\* lualatex and pdftocairo both succeeded; a failed attempt leaves an absent
\* path absent; and a visit that finds the path absent attempts the render
\* (which runs lualatex unless the attempt dies before line 106).
C4_Step ==
    /\ \A p \in media' \ media :
           \E t \in Themes :
               /\ last'.emitted
               /\ p = ThemePath(last'.base, t)
               /\ last'.outcome[t] = "ok"
    /\ last'.emitted =>
           \A t \in Themes :
               LET p == ThemePath(last'.base, t)
               IN  p \notin media =>
                       /\ last'.called[t] = 1
                       /\ last'.outcome[t] # "ok" => p \notin media'
                       /\ last'.outcome[t] # "early_error" => last'.runs[t] >= 1

C4_FileOnlyOnSuccess == [][C4_Step]_vars

C4_Witness ==
    /\ last.emitted
    /\ last.seenBefore
    /\ STYLE_WHITE \notin last.existed
    /\ last.outcome[STYLE_WHITE] = "pdftocairo_fail"
    /\ last.runs[STYLE_WHITE] = 2
    /\ PathOf(STYLE_WHITE) \notin media

\* C5: rewriting a Div.center keeps every child that is not the diagram block
\* (the paragraph before the diagram is in the output), the wrapper is gone.
C5_SiblingsKept ==
    (last.emitted /\ last.elem.kind = "Div") =>
        /\ \A i \in 1..Len(last.elem.content) :
               i # FirstTikzChild(last.elem.content) =>
                   \E j \in 1..Len(last.result) :
                       last.result[j] = last.elem.content[i]
        /\ \A j \in 1..Len(last.result) : last.result[j] # last.elem

\* C6: a latex RawBlock outside Figure and Div.center whose text holds a
\* complete diagram environment consumes an image sequence number and is
\* replaced by exactly two blocks, a dark one and a light one.
C6_BareRawReplaced ==
    (/\ last.elem.kind = "RawBlock"
     /\ last.elem.format = "latex"
     /\ extract_tikz(last.elem.text) # <<>>)
    => /\ last.emitted
       /\ last.img_num >= 1
       /\ Len(last.result) = 2

\* C7 as stated: the first encounter of a (source, base name) writes 0 or 2
\* files, every later encounter writes none.
C7_ZeroOrTwoFiles ==
    last.emitted =>
        IF last.seenBefore THEN last.replaced = {}
        ELSE Cardinality(last.replaced) \in {0, 2}

\* C7 as amended: an encounter writes one file for each theme whose path was
\* absent and whose render succeeded (0, 1 or 2 on the first encounter), and
\* none once both files exist.
C7_FilesWritten ==
    last.emitted =>
        /\ last.replaced =
               {PathOf(t) : t \in {u \in Themes :
                                      u \notin last.existed /\ last.outcome[u] = "ok"}}
        /\ ~last.seenBefore => last.existed = {}
        /\ last.existed = Themes => last.replaced = {}

C7_Witness ==
    /\ last.emitted
    /\ ~last.seenBefore
    /\ Cardinality(last.replaced) = 1

\* C8 as stated: within one traversal, two occurrences of the same source
\* have the same base name (the same two paths, no additional files).
C8_OnePairPerSource ==
    \A i \in 1..Len(emissions) : \A j \in 1..Len(emissions) :
        emissions[i][1] = emissions[j][1] => emissions[i][2] = emissions[j][2]

\* C8 as amended: within one traversal every occurrence of a source has its
\* own base name, hence its own two paths; only a visit that repeats a base
\* name of an earlier traversal with both files present writes nothing.
C8_PairPerOccurrence ==
    /\ \A i \in 1..Len(emissions) : \A j \in 1..Len(emissions) :
           i # j =>
               /\ emissions[i][2] # emissions[j][2]
               /\ \A t \in Themes : \A u \in Themes :
                      ThemePath(emissions[i][2], t) # ThemePath(emissions[j][2], u)
    /\ (last.emitted /\ last.seenBefore /\ last.existed = Themes)
           => last.replaced = {}

C8_Witness ==
    /\ Len(emissions) >= 2
    /\ emissions[1][1] = emissions[2][1]
    /\ last.emitted
    /\ last.replaced # {}

\* C9: when lualatex fails for both themes of a node (no cached file), the
\* node is returned as it came and exactly one diagnostic is written.
C9_DeterministicFailure ==
    (/\ last.emitted
     /\ last.existed = {}
     /\ \A t \in Themes : last.outcome[t] = "lualatex_fail")
    => /\ last.result = <<last.elem>>
       /\ last.diags = 1

\* C10: a Div.center that holds previously emitted dark/light blocks is
\* split: those blocks are top-level siblings of the output, and nothing is
\* rendered again.
C10_ProcessedWrapperSplit ==
    (/\ last.elem.kind = "Div"
     /\ "center" \in last.elem.classes
     /\ \E i \in 1..Len(last.elem.content) :
            is_tikz_darklight_raw(last.elem.content[i]))
    => /\ \A i \in 1..Len(last.elem.content) :
              is_tikz_darklight_raw(last.elem.content[i]) =>
                  Cardinality({j \in 1..Len(last.result) :
                                  last.result[j] = last.elem.content[i]}) = 1
       /\ ~last.emitted

\* the start positions of complete pairs: a begin marker with a later end
\* marker of the same environment
CompletePairStarts(raw) ==
    {i \in 1..Len(raw) :
        \E env \in Envs :
            /\ raw[i] = BeginMarker(env)
            /\ \E j \in (i+1)..Len(raw) : raw[j] = EndMarker(env)}

NoCompleteChild(elem) ==
    \A i \in 1..Len(elem.content) :
        isRawBlock(elem.content[i]) => CompletePairStarts(elem.content[i].text) = {}

\* C11: a Figure or a Div.center without a raw child that holds a complete
\* begin/end pair is returned unchanged: no tool is invoked, no file is
\* written, and chapter, section and image counters stay as they were.
C11_Step ==
    (/\ visits' = visits + 1
     /\ last'.elem.kind \in {"Figure", "Div"}
     /\ NoCompleteChild(last'.elem))
    => /\ last'.result = <<last'.elem>>
       /\ ~last'.emitted
       /\ \A t \in Themes : last'.called[t] = 0 /\ last'.runs[t] = 0
       /\ last'.replaced = {}
       /\ UNCHANGED <<level1_number, level2_number, image_num_per_level2, media>>

C11_ExtractionMiss == [][C11_Step]_vars

C11_Witness ==
    /\ last.elem.kind = "Figure"
    /\ FirstTikzChild(last.elem.content) # 0
    /\ NoCompleteChild(last.elem)
    /\ last.result = <<last.elem>>
    /\ image_num_per_level2 # <<>>
    /\ level1_number # <<>>

\* C14: a failed black render does not keep the white render from being
\* attempted in the same visit, and when exactly one theme succeeds its file
\* is in the media directory while the other path is absent.
C14_ThemesIndependent ==
    last.emitted =>
        /\ (STYLE_BLACK \notin last.existed /\ STYLE_WHITE \notin last.existed)
               => last.called[STYLE_BLACK] = 1 /\ last.called[STYLE_WHITE] = 1
        /\ \A t \in Themes : \A u \in Themes :
               (/\ last.outcome[t] = "ok"
                /\ last.outcome[u] \notin {"ok", "none"})
               => PathOf(t) \in media /\ PathOf(u) \notin media

C14_Witness ==
    /\ last.emitted
    /\ last.outcome[STYLE_BLACK] = "lualatex_fail"
    /\ last.outcome[STYLE_WHITE] = "ok"
    /\ PathOf(STYLE_WHITE) \in media
    /\ PathOf(STYLE_BLACK) \notin media

\* C15: every key of the image-count map belongs to the current chapter: the
\* map is empty right after a level-1 heading, a key is the empty section key
\* or a section number between 1 and the section counter, and the counter of
\* the current key after an emission is the sequence number, starting at 1.
C15_KeysOfCurrentChapter ==
    /\ \A k \in DOMAIN image_num_per_level2 :
           \/ k = <<>>
           \/ /\ Len(k) = 1
              /\ level2_number # <<>>
              /\ 1 <= k[1]
              /\ k[1] <= level2_number[1]
    /\ (last.elem.kind = "Header" /\ last.elem.level = 1)
           => DOMAIN image_num_per_level2 = {}
    /\ <<>> \in DOMAIN image_num_per_level2 => image_num_per_level2[<<>>] >= 1
    /\ last.emitted =>
           /\ level2_number \in DOMAIN image_num_per_level2
           /\ image_num_per_level2[level2_number] = last.img_num
           /\ last.img_num >= 1

C15_Witness ==
    /\ DOMAIN image_num_per_level2 = {<<>>, <<1>>}
    /\ level2_number = <<1>>
    /\ image_num_per_level2[<<>>] = 1
    /\ last.emitted
    /\ last.img_num = 1

\* C16: a heading is returned unchanged, and a heading of a level other than
\* 1 and 2 leaves chapter counter, section counter and image-count map alone.
C16_Step ==
    (visits' = visits + 1 /\ last'.elem.kind = "Header")
    => /\ last'.result = <<last'.elem>>
       /\ last'.elem.level \notin {1, 2}
              => UNCHANGED <<level1_number, level2_number, image_num_per_level2>>

C16_HeadingUnchanged == [][C16_Step]_vars

C16_Witness ==
    /\ last.elem = Header(3)
    /\ level1_number = <<1>>
    /\ level2_number = <<1>>
    /\ image_num_per_level2 = (<<1>> :> 0)

\* C19: within one traversal no two emissions have the same (chapter, section,
\* sequence) triple, and no two have the same base-name prefix, also for
\* images before any heading ("0", "0") and sections before the first chapter.
TripleOf(em) == em[3]

PrefixOf(em) ==
    sanitize_number(em[3][1]) \o "_" \o sanitize_number(em[3][2])
        \o "_" \o ToString(em[3][3])

C19_UniqueTriples ==
    /\ \A i \in 1..Len(emissions) :
           emissions[i][2] = PrefixOf(emissions[i]) \o "_" \o sha1_hash(emissions[i][1])
    /\ \A i \in 1..Len(emissions) : \A j \in 1..Len(emissions) :
           i # j =>
               /\ TripleOf(emissions[i]) # TripleOf(emissions[j])
               /\ PrefixOf(emissions[i]) # PrefixOf(emissions[j])

C19_Witness ==
    /\ Len(emissions) = 2
    /\ emissions[1][1] = emissions[2][1]
    /\ TripleOf(emissions[1]) = <<(<<>>), (<<>>), 1>>
    /\ TripleOf(emissions[2]) = <<(<<>>), (<<1>>), 1>>

\* C18: extract_tikz returns the span of the first complete pair only: it
\* starts at the earliest begin marker that has a later end marker of the same
\* environment, ends at the nearest such end marker, never pairs markers of
\* different environments, and is None when there is no complete pair.
C18_FirstCompletePair ==
    found.done =>
        IF CompletePairStarts(rawText) = {}
        THEN found.span = <<>>
        ELSE \E i \in CompletePairStarts(rawText) : \E env \in Envs :
                 \E j \in (i+1)..Len(rawText) :
                     /\ \A k \in CompletePairStarts(rawText) : i <= k
                     /\ rawText[i] = BeginMarker(env)
                     /\ rawText[j] = EndMarker(env)
                     /\ \A k \in (i+1)..(j-1) : rawText[k] # EndMarker(env)
                     /\ found.span = SubSeq(rawText, i, j)

C18_Witness ==
    /\ found.done
    /\ rawText = <<BeginMarker("tikzpicture"), EndMarker("circuitikz"),
               EndMarker("tikzpicture"), EndMarker("tikzpicture")>>
    /\ found.span = SubSeq(rawText, 1, 3)

\* C12: two traversals of the same document give every diagram node the same
\* base name, whatever files are in the media directory and whatever the
\* renders of either run do.
C12_SameBaseNames ==
    run = 2 =>
        /\ Len(emissions) <= Len(firstRun)
        /\ \A i \in 1..Len(emissions) : emissions[i] = firstRun[i]
        /\ pos = Len(doc) => Len(emissions) = Len(firstRun)

C12_Witness ==
    /\ run = 2
    /\ pos = Len(doc)
    /\ Len(emissions) = 2
    /\ ThemePath(emissions[1][2], STYLE_BLACK) \notin media
    /\ last.emitted
    /\ last.existed = {STYLE_BLACK}
    /\ last.outcome[STYLE_WHITE] = "ok"

\* C13: both target paths end in "pdf" when the output format is PDF-based
\* and in "svg" for every other output format.
PdfFormats == {"latex"}

ExpectedExt == IF format \in PdfFormats THEN "pdf" ELSE "svg"

C13_PdfExtension ==
    \A r \in rendered :
        /\ r[2] = MEDIA_PATH \o "/" \o r[1] \o "_" \o STYLE_BLACK \o "." \o ExpectedExt
        /\ r[3] = MEDIA_PATH \o "/" \o r[1] \o "_" \o STYLE_WHITE \o "." \o ExpectedExt

\* C17: nothing but its own existence check guards a process: it runs the
\* tools and writes a target path only after it saw that path absent, and no
\* lock keeps a second process from seeing the same path absent meanwhile, so
\* that both processes invoke the toolchain and both write the same path.
C17_CheckIsOnlyGuard ==
    \A p \in Procs : \A t \in Themes :
        (\/ procs[p].runs[t] > 0
         \/ t \in procs[p].wrote
         \/ (procs[p].theme = t /\ procs[p].pc \in {"lualatex", "pdftocairo", "replace"}))
        => t \in procs[p].saw

C17_BothWrite ==
    \E t \in Themes :
        \A p \in Procs :
            /\ t \in procs[p].saw
            /\ procs[p].runs[t] = 2
            /\ t \in procs[p].wrote

====
